---- MODULE Spec2Model ----
(***************************************************************************)
(* Model of packages/@aws-cdk/aws-lambda/lib/edge-function.ts.             *)
(*                                                                         *)
(* The state is the in-memory construct tree (a function from a node's     *)
(* path to the node's fields), the set of stack dependency edges, and the  *)
(* outcome of the last call together with the ordered list of the tree     *)
(* operations that call performed.  A node's path is the sequence of       *)
(* construct ids from the root of its tree down to the node.               *)
(***************************************************************************)
EXTENDS Integers, Sequences, FiniteSets, TLC

VARIABLES tree, deps, lastCall, trace, nCalls

vars == <<tree, deps, lastCall, trace, nCalls>>

(* ------------------------------ bounds --------------------------------- *)

\* Number of calls (constructor and method calls together) in one run.
MaxCalls == 2

(* ----------------------------- constants ------------------------------- *)

EDGE_REGION == "us-east-1"

\* The string a lazy region token renders to before deployment.
UnresolvedRegion == "${Token[AWS.Region.4]}"

NoErr == "none"
ErrNotStaged == "stacks which use EdgeFunctions must be part of a CDK app or stage"
ErrRegion == "stacks which use EdgeFunctions must have an explicitly set region"
ErrDuplicate == "There is already a Construct with name"
ErrConnections == "Lambda@Edge does not support connections"
ErrLatestVersion == "$LATEST function version cannot be used for Lambda@Edge"
ErrAsyncConfigured == "An EventInvokeConfig has already been configured for the function"

\* props.role left undefined.
NoRole == <<>>

\* A role the caller supplies; it lives outside the modelled trees.
CallerRole == <<"CallerRole">>
NoPath == <<>>

StackKinds == {"Stack", "CrossRegionLambdaStack"}

(* ------------------------------ inputs --------------------------------- *)

\* The stacks a caller may construct an EdgeFunction in.
CallerStacks ==
  { <<"App", "SA">>, <<"App", "SB">>, <<"App", "SC">>,
    <<"App", "SE">>, <<"App", "SU">>, <<"LN">>, <<"LE">> }

Ids == {"Fn", "FnServiceRole"}

Props == { [role |-> NoRole], [role |-> CallerRole] }

AliasNames == {"live"}

\* The ids a caller gives to addPermission and addEventSourceMapping, the
\* mapping id an event source binds with, the grantee of grantInvoke and the
\* statement of addToRolePolicy.
PermissionIds == {"Perm"}

MappingIds == {"Mapping"}

EventSources == { [mappingId |-> "SqsEventSource:Queue"] }

Grantees == {"ServicePrincipal(cloudfront.amazonaws.com)"}

Statements == { [Effect |-> "Allow", Action |-> "s3:GetObject", Resource |-> "*"] }

\* The tree before any EdgeFunction is constructed: one App holding five
\* stacks, and two stacks that are their own root.
InitialTree ==
  (<<"App">> :> [kind |-> "App"]) @@
  (<<"App", "SA">> :> [kind |-> "Stack", region |-> "eu-west-1", synthesizer |-> "Legacy"]) @@
  (<<"App", "SB">> :> [kind |-> "Stack", region |-> "eu-west-1", synthesizer |-> "Default"]) @@
  (<<"App", "SC">> :> [kind |-> "Stack", region |-> "eu-west-2", synthesizer |-> "Legacy"]) @@
  (<<"App", "SE">> :> [kind |-> "Stack", region |-> EDGE_REGION, synthesizer |-> "Legacy"]) @@
  (<<"App", "SU">> :> [kind |-> "Stack", region |-> UnresolvedRegion, synthesizer |-> "Legacy"]) @@
  (<<"LN">> :> [kind |-> "Stack", region |-> "eu-west-1", synthesizer |-> "Legacy"]) @@
  (<<"LE">> :> [kind |-> "Stack", region |-> EDGE_REGION, synthesizer |-> "Legacy"])

(* ------------------------- construct-tree helpers ---------------------- *)

Parent(p) == SubSeq(p, 1, Len(p) - 1)

\* node.root
rootOf(p) == <<p[1]>>

\* Stage.isStage(x): an App is a Stage.
isStage(t, p) == t[p].kind \in {"App", "Stage"}

\* Token.isUnresolved(x)
isUnresolved(region) == region = UnresolvedRegion

\* Stack.of(construct): the nearest enclosing stack.
RECURSIVE stackOf(_, _)
stackOf(t, p) ==
  IF t[p].kind \in StackKinds THEN p ELSE stackOf(t, Parent(p))

Event(op, kind, path, target) ==
  [op |-> op, kind |-> kind, path |-> path, target |-> target]

\* new SomeConstruct(scope, id, ...): attach a node under scope, or throw when
\* the scope already has a child of that id.  A graph that already carries an
\* error is passed through unchanged (the exception has unwound the call).
newConstruct(g, scope, id, node) ==
  IF g.err # NoErr THEN g
  ELSE IF (scope \o <<id>>) \in DOMAIN g.tree
       THEN [g EXCEPT !.err = ErrDuplicate]
       ELSE [g EXCEPT !.tree = ((scope \o <<id>>) :> node) @@ g.tree,
                      !.trace = Append(@, Event("new", node.kind, scope \o <<id>>, NoPath))]

\* node.tryFindChild(id)
tryFindChild(g, scope, id) ==
  IF g.err # NoErr THEN g
  ELSE [g EXCEPT !.trace = Append(@, Event("tryFindChild", "", scope \o <<id>>, NoPath))]

\* consumerStack.addDependency(providerStack)
addDependency(g, from, to) ==
  IF g.err # NoErr THEN g
  ELSE [g EXCEPT !.deps = @ \cup {<<from, to>>},
                 !.trace = Append(@, Event("addDependency", "", from, to))]

\* stack.formatArn({service, region, resource, resourceName})
formatArn(service, region, resource, resourceName) ==
  "arn:${AWS::Partition}:" \o service \o ":" \o region \o ":${AWS::AccountId}:"
     \o resource \o "/" \o resourceName

\* new Function(scope, id, {...props, role})
newFunction(g, scope, id, role) ==
  newConstruct(g, scope, id, [kind |-> "Function", role |-> role])

\* fn.currentVersion: the Version child of the function.
currentVersionOf(g, fn) ==
  newConstruct(g, fn, "CurrentVersion", [kind |-> "Version", lambda |-> fn])

\* version.edgeArn: a reference to the version resource.
edgeArnOf(version) == <<"Ref", version>>

\* CustomResourceProvider.getOrCreate(scope, uniqueid, props): one provider
\* per stack and resource type; an existing provider is returned as it is.
getOrCreate(g, scope, uniqueid, props) ==
  IF g.err # NoErr THEN [g |-> g, ret |-> NoPath]
  ELSE LET id == uniqueid \o "CustomResourceProvider"
           stack == stackOf(g.tree, scope)
           g1 == tryFindChild(g, stack, id)
       IN  [g |-> IF (stack \o <<id>>) \in DOMAIN g.tree
                  THEN g1
                  ELSE newConstruct(g1, stack, id,
                         [kind |-> "CustomResourceProvider",
                          policyStatements |-> props.policyStatements]),
            ret |-> stack \o <<id>>]

(* --------------------------- edge-function.ts -------------------------- *)

\* defaultLambdaRole(scope, id)
defaultLambdaRole(g, scope, id) ==
  [g |-> newConstruct(g, scope, id \o "ServiceRole",
           [kind |-> "Role",
            assumedBy |-> {"lambda.amazonaws.com", "edgelambda.amazonaws.com"},
            managedPolicies |-> {"service-role/AWSLambdaBasicExecutionRole"}]),
   role |-> scope \o <<id \o "ServiceRole">>]

\* props.role ?? defaultLambdaRole(scope, id)
roleOrDefault(g, scope, id, props) ==
  IF props.role # NoRole THEN [g |-> g, role |-> props.role]
  ELSE defaultLambdaRole(g, scope, id)

\* const regionIsUsEast1 = !Token.isUnresolved(region) && region === 'us-east-1'
regionIsUsEast1_NegationDropped(t, this) ==
  isUnresolved(t[stackOf(t, this)].region) /\ t[stackOf(t, this)].region = "us-east-1"

regionIsUsEast1(t, this) ==
  ~isUnresolved(t[stackOf(t, this)].region) /\ t[stackOf(t, this)].region = "us-east-1"

\* EdgeFunction.createInRegionFunction
createInRegionFunction(g, this, id, props) ==
  LET r == roleOrDefault(g, this, id, props)
      f == newFunction(r.g, this, "Fn", r.role)
      v == currentVersionOf(f, this \o <<"Fn">>)
  IN  [g |-> v,
       edgeFunction |-> this \o <<"Fn">>,
       currentVersion |-> this \o <<"Fn", "CurrentVersion">>,
       edgeArn |-> edgeArnOf(this \o <<"Fn", "CurrentVersion">>),
       functionStack |-> stackOf(g.tree, this)]

\* CrossRegionLambdaStack.addEdgeFunction
addEdgeFunction(g, self, id, parameterName, props) ==
  LET r == roleOrDefault(g, self, id, props)
      f == newFunction(r.g, self, id, r.role)
      v == currentVersionOf(f, self \o <<id>>)
      p == newConstruct(v, self \o <<id>>, "Parameter",
             [kind |-> "StringParameter",
              parameterName |-> parameterName,
              stringValue |-> edgeArnOf(self \o <<id, "CurrentVersion">>)])
  IN  [g |-> p,
       edgeFunction |-> self \o <<id>>,
       currentVersion |-> self \o <<id, "CurrentVersion">>]

\* getCrossRegionSupportSynthesizer
getCrossRegionSupportSynthesizer(t, this) ==
  IF t[stackOf(t, this)].synthesizer = "Default" THEN "Bootstrapless" ELSE "undefined"

\* The two configuration checks of edgeStack().
edgeStackError_NoRegionCheck(t, this) ==
  IF ~isStage(t, rootOf(this)) THEN ErrNotStaged ELSE NoErr

edgeStackError(t, this) ==
  IF ~isStage(t, rootOf(this)) THEN ErrNotStaged
  ELSE IF isUnresolved(t[stackOf(t, this)].region) THEN ErrRegion
  ELSE NoErr

\* const edgeStackId = `edge-lambda-stack-${region}`
edgeStackId(region) == "edge-lambda-stack-" \o region

\* The props of a new CrossRegionLambdaStack.
crossRegionStackProps_CallerRegion(t, this) ==
  [kind |-> "CrossRegionLambdaStack",
   synthesizer |-> getCrossRegionSupportSynthesizer(t, this),
   region |-> t[stackOf(t, this)].region]

crossRegionStackProps(t, this) ==
  [kind |-> "CrossRegionLambdaStack",
   synthesizer |-> getCrossRegionSupportSynthesizer(t, this),
   region |-> EDGE_REGION]

\* EdgeFunction.edgeStack
edgeStack(g, this) ==
  IF g.err # NoErr THEN [g |-> g, ret |-> NoPath]
  ELSE IF edgeStackError(g.tree, this) # NoErr
       THEN [g |-> [g EXCEPT !.err = edgeStackError(g.tree, this)], ret |-> NoPath]
       ELSE LET stage == rootOf(this)
                region == g.tree[stackOf(g.tree, this)].region
                id == edgeStackId(region)
                g1 == tryFindChild(g, stage, id)
            IN  [g |-> IF (stage \o <<id>>) \in DOMAIN g.tree
                       THEN g1
                       ELSE newConstruct(g1, stage, id, crossRegionStackProps(g.tree, this)),
                 ret |-> stage \o <<id>>]

\* const parameterName = `EdgeFunctionArn${id}`
parameterNameOf(id) == "EdgeFunctionArn" \o id

ResourceType == "Custom::CrossRegionStringParameterReader"

\* The mutant records no dependency edge.
createCrossRegionFunction_NoDependency(g, this, id, props) ==
  LET parameterName == parameterNameOf(id)
      es == edgeStack(g, this)
      af == addEdgeFunction(es.g, es.ret, id, parameterName, props)
      parameterArn == formatArn("ssm", EDGE_REGION, "parameter", parameterName)
      sp == getOrCreate(af.g, this, ResourceType,
              [policyStatements |->
                 {[Effect |-> "Allow", Resource |-> parameterArn, Action |-> {"ssm:GetParameter"}]}])
      rs == newConstruct(sp.g, this, "ArnReader",
              [kind |-> "CustomResource",
               resourceType |-> ResourceType,
               serviceToken |-> sp.ret,
               properties |-> [Region |-> EDGE_REGION, ParameterName |-> parameterName]])
  IN  [g |-> rs,
       edgeFunction |-> af.edgeFunction,
       currentVersion |-> af.currentVersion,
       edgeArn |-> <<"GetAtt", this \o <<"ArnReader">>, "FunctionArn">>,
       functionStack |-> es.ret]

\* EdgeFunction.createCrossRegionFunction.  The RefreshEachDeploy property
\* (the wall clock at construction) is not part of the model.
createCrossRegionFunction(g, this, id, props) ==
  LET parameterName == parameterNameOf(id)
      es == edgeStack(g, this)
      gd == addDependency(es.g, stackOf(g.tree, this), es.ret)
      af == addEdgeFunction(gd, es.ret, id, parameterName, props)
      parameterArn == formatArn("ssm", EDGE_REGION, "parameter", parameterName)
      sp == getOrCreate(af.g, this, ResourceType,
              [policyStatements |->
                 {[Effect |-> "Allow", Resource |-> parameterArn, Action |-> {"ssm:GetParameter"}]}])
      rs == newConstruct(sp.g, this, "ArnReader",
              [kind |-> "CustomResource",
               resourceType |-> ResourceType,
               serviceToken |-> sp.ret,
               properties |-> [Region |-> EDGE_REGION, ParameterName |-> parameterName]])
  IN  [g |-> rs,
       edgeFunction |-> af.edgeFunction,
       currentVersion |-> af.currentVersion,
       edgeArn |-> <<"GetAtt", this \o <<"ArnReader">>, "FunctionArn">>,
       functionStack |-> es.ret]

\* EdgeFunction.constructor: super(scope, id) attaches the facade node, then
\* placement is resolved and, when nothing threw, the fields are assigned.
EdgeFunctionCtor(g, scope, id, props) ==
  LET this == scope \o <<id>>
      g1 == newConstruct(g, scope, id, [kind |-> "EdgeFunction"])
  IN  IF g1.err # NoErr THEN g1
      ELSE LET cfg == IF regionIsUsEast1(g1.tree, this)
                      THEN createInRegionFunction(g1, this, id, props)
                      ELSE createCrossRegionFunction(g1, this, id, props)
           IN  IF cfg.g.err # NoErr THEN cfg.g
               ELSE [cfg.g EXCEPT !.tree[this] =
                       [kind |-> "EdgeFunction",
                        functionStack |-> cfg.functionStack,
                        edgeArn |-> cfg.edgeArn,
                        functionArn |-> cfg.edgeArn,
                        currentVersion |-> cfg.currentVersion,
                        lambda |-> cfg.edgeFunction,
                        grantPrincipal |-> cfg.g.tree[cfg.edgeFunction].role]]

\* The mutant attaches the alias to the facade.
addAlias_UnderFacade(g, this, aliasName) ==
  newConstruct(g, this, "Alias" \o aliasName,
    [kind |-> "Alias", aliasName |-> aliasName, version |-> g.tree[this].currentVersion])

\* EdgeFunction.addAlias
addAlias(g, this, aliasName) ==
  newConstruct(g, g.tree[this].functionStack, "Alias" \o aliasName,
    [kind |-> "Alias", aliasName |-> aliasName, version |-> g.tree[this].currentVersion])

(* ------------------ the underlying function's methods ------------------ *)

\* fn.addEventSourceMapping(id, options): an EventSourceMapping under fn.
lambdaAddEventSourceMapping(g, fn, id) ==
  newConstruct(g, fn, id, [kind |-> "EventSourceMapping", target |-> fn])

\* fn.addPermission(id, permission): a Permission under fn.
lambdaAddPermission(g, fn, id) ==
  newConstruct(g, fn, id, [kind |-> "Permission", functionName |-> fn])

\* fn.addToRolePolicy(statement): the statement goes to the default policy of
\* the function's role; a role outside the tree takes it without a new node.
lambdaAddToRolePolicy(g, fn, statement) ==
  LET role == g.tree[fn].role
      policy == role \o <<"DefaultPolicy">>
  IN  IF g.err # NoErr \/ role \notin DOMAIN g.tree THEN g
      ELSE IF policy \in DOMAIN g.tree
           THEN [g EXCEPT !.tree[policy].statements = @ \cup {statement}]
           ELSE newConstruct(g, role, "DefaultPolicy",
                  [kind |-> "Policy", statements |-> {statement}])

\* fn.grantInvoke(grantee) for a principal that takes no identity policy: the
\* grant becomes a Permission `Invoke${principal}` on the function.
lambdaGrantInvoke(g, fn, grantee) ==
  lambdaAddPermission(g, fn, "Invoke" \o grantee)

\* fn.addEventSource(source): source.bind(fn) maps the source onto fn.
lambdaAddEventSource(g, fn, source) ==
  lambdaAddEventSourceMapping(g, fn, source.mappingId)

\* fn.configureAsyncInvoke(options): one EventInvokeConfig per function.
lambdaConfigureAsyncInvoke(g, fn) ==
  IF g.err # NoErr THEN g
  ELSE IF (fn \o <<"EventInvokeConfig">>) \in DOMAIN g.tree
       THEN [g EXCEPT !.err = ErrAsyncConfigured]
       ELSE newConstruct(g, fn, "EventInvokeConfig", [kind |-> "EventInvokeConfig", function |-> fn])

(* ---------------------- EdgeFunction's forwarders ---------------------- *)

\* get connections(): always throws.
connections(g, this) == [g EXCEPT !.err = ErrConnections]

\* get latestVersion(): always throws.
latestVersion(g, this) == [g EXCEPT !.err = ErrLatestVersion]

\* EdgeFunction.addEventSourceMapping
addEventSourceMapping(g, this, id) ==
  lambdaAddEventSourceMapping(g, g.tree[this].lambda, id)

\* EdgeFunction.addPermission
addPermission(g, this, id) ==
  lambdaAddPermission(g, g.tree[this].lambda, id)

\* EdgeFunction.addToRolePolicy
addToRolePolicy(g, this, statement) ==
  lambdaAddToRolePolicy(g, g.tree[this].lambda, statement)

\* EdgeFunction.grantInvoke
grantInvoke(g, this, identity) ==
  lambdaGrantInvoke(g, g.tree[this].lambda, identity)

\* EdgeFunction.addEventSource
addEventSource(g, this, source) ==
  lambdaAddEventSource(g, g.tree[this].lambda, source)

\* EdgeFunction.configureAsyncInvoke
configureAsyncInvoke(g, this) ==
  lambdaConfigureAsyncInvoke(g, g.tree[this].lambda)

(* ------------------------------ the state ------------------------------ *)

Facades == {p \in DOMAIN tree : tree[p].kind = "EdgeFunction"}

\* The facades whose constructor returned.
Constructed == {p \in Facades : "lambda" \in DOMAIN tree[p]}

Graph == [tree |-> tree, deps |-> deps, trace |-> <<>>, err |-> NoErr]

Init ==
  /\ tree = InitialTree
  /\ deps = {}
  /\ lastCall = [op |-> "none", scope |-> NoPath, id |-> "", role |-> NoRole, err |-> NoErr]
  /\ trace = <<>>
  /\ nCalls = 0

NewEdgeFunction ==
  \E scope \in CallerStacks, id \in Ids, props \in Props :
    /\ nCalls < MaxCalls
    /\ LET g == EdgeFunctionCtor(Graph, scope, id, props)
       IN  /\ tree' = g.tree
           /\ deps' = g.deps
           /\ trace' = g.trace
           /\ lastCall' = [op |-> "new", scope |-> scope, id |-> id,
                           role |-> props.role, err |-> g.err]
    /\ nCalls' = nCalls + 1

AddAlias ==
  \E this \in Constructed, aliasName \in AliasNames :
    /\ nCalls < MaxCalls
    /\ LET g == addAlias(Graph, this, aliasName)
       IN  /\ tree' = g.tree
           /\ deps' = g.deps
           /\ trace' = g.trace
           /\ lastCall' = [op |-> "addAlias", scope |-> this, id |-> aliasName,
                           role |-> NoRole, err |-> g.err]
    /\ nCalls' = nCalls + 1

\* A method call on a constructed facade: the graph it leaves and its outcome.
MethodCall(op, this, id, g) ==
  /\ nCalls < MaxCalls
  /\ tree' = g.tree
  /\ deps' = g.deps
  /\ trace' = g.trace
  /\ lastCall' = [op |-> op, scope |-> this, id |-> id, role |-> NoRole, err |-> g.err]
  /\ nCalls' = nCalls + 1

Connections ==
  \E this \in Constructed :
    MethodCall("connections", this, "", connections(Graph, this))

LatestVersion ==
  \E this \in Constructed :
    MethodCall("latestVersion", this, "", latestVersion(Graph, this))

AddEventSourceMapping ==
  \E this \in Constructed, id \in MappingIds :
    MethodCall("addEventSourceMapping", this, id, addEventSourceMapping(Graph, this, id))

AddPermission ==
  \E this \in Constructed, id \in PermissionIds :
    MethodCall("addPermission", this, id, addPermission(Graph, this, id))

AddToRolePolicy ==
  \E this \in Constructed, statement \in Statements :
    MethodCall("addToRolePolicy", this, "", addToRolePolicy(Graph, this, statement))

GrantInvoke ==
  \E this \in Constructed, identity \in Grantees :
    MethodCall("grantInvoke", this, identity, grantInvoke(Graph, this, identity))

AddEventSource ==
  \E this \in Constructed, source \in EventSources :
    MethodCall("addEventSource", this, source.mappingId, addEventSource(Graph, this, source))

ConfigureAsyncInvoke ==
  \E this \in Constructed :
    MethodCall("configureAsyncInvoke", this, "", configureAsyncInvoke(Graph, this))

Next ==
  \/ NewEdgeFunction
  \/ AddAlias
  \/ Connections
  \/ LatestVersion
  \/ AddEventSourceMapping
  \/ AddPermission
  \/ AddToRolePolicy
  \/ GrantInvoke
  \/ AddEventSource
  \/ ConfigureAsyncInvoke

Spec == Init /\ [][Next]_vars

(* --------------------------- derived notions --------------------------- *)

IsUnder(c, p) == Len(c) > Len(p) /\ SubSeq(c, 1, Len(p)) = p

IdOf(p) == p[Len(p)]

CallerStackOf(f) == stackOf(tree, f)

CallerRegion(f) == tree[CallerStackOf(f)].region

NodesOfKind(k) == {p \in DOMAIN tree : tree[p].kind = k}

SupportStacks == NodesOfKind("CrossRegionLambdaStack")

\* The facades that took the cross-region path: their resolver invocation exists.
CrossRegionFacades == {f \in Constructed : (f \o <<"ArnReader">>) \in DOMAIN tree}

InRegionFacades == Constructed \ CrossRegionFacades

\* The facade node the last constructor call attached.
LastThis == lastCall.scope \o <<lastCall.id>>

\* The last call was a constructor call that got past super(scope, id).
LastCtorEntered == lastCall.op = "new" /\ trace # <<>>

\* The last call was a constructor call on the cross-region path.
LastCtorCrossRegion ==
  LastCtorEntered /\ tree[lastCall.scope].region # "us-east-1"

(* -------------------------------- C1 ----------------------------------- *)

\* C1: any two callers of one application that take the
\* cross-region path obtain the identical support stack, and an application
\* root holds at most one support stack.
C1_OneSupportStackPerApplication ==
  /\ \A f1, f2 \in CrossRegionFacades :
       rootOf(f1) = rootOf(f2) => tree[f1].functionStack = tree[f2].functionStack
  /\ \A r \in {rootOf(p) : p \in DOMAIN tree} :
       Cardinality({s \in SupportStacks : rootOf(s) = r}) <= 1

(* -------------------------------- C2 ----------------------------------- *)

\* C2: the provider that serves a cross-region facade's ArnReader carries a
\* policy scoped to exactly the address of that facade's own published entry.
C2_ProviderReadsOwnEntryOnly ==
  \A f \in CrossRegionFacades :
    LET reader == tree[f \o <<"ArnReader">>]
        own == tree[tree[f].lambda \o <<"Parameter">>].parameterName
    IN  tree[reader.serviceToken].policyStatements =
          {[Effect |-> "Allow",
            Resource |-> "arn:${AWS::Partition}:ssm:us-east-1:${AWS::AccountId}:parameter/" \o own,
            Action |-> {"ssm:GetParameter"}]}

(* -------------------------------- C3 ----------------------------------- *)

\* C3: a caller whose stack region is concretely us-east-1 always gets the
\* in-region path, staged application or not: one function, a child of the
\* facade; no support stack lookup or creation, no dependency edge, entry or
\* resolver; the facade's edgeArn and functionArn are the current version's
\* edgeArn; the owning stack is the caller's stack.
C3_InRegionPath ==
  /\ \A f \in Facades :
       CallerRegion(f) = "us-east-1" =>
         /\ f \in Constructed
         /\ {p \in NodesOfKind("Function") : IsUnder(p, f)} = {f \o <<"Fn">>}
         /\ tree[f].lambda = f \o <<"Fn">>
         /\ tree[f].currentVersion = f \o <<"Fn", "CurrentVersion">>
         /\ tree[f].edgeArn = <<"Ref", f \o <<"Fn", "CurrentVersion">>>>
         /\ tree[f].functionArn = tree[f].edgeArn
         /\ tree[f].functionStack = CallerStackOf(f)
         /\ \A p \in DOMAIN tree :
              IsUnder(p, f) =>
                tree[p].kind \notin {"CrossRegionLambdaStack", "StringParameter",
                                     "CustomResourceProvider", "CustomResource"}
         /\ \A d \in deps : d[1] # CallerStackOf(f) /\ d[2] # CallerStackOf(f)
  /\ (LastCtorEntered /\ tree[lastCall.scope].region = "us-east-1") =>
       /\ lastCall.err = NoErr
       /\ \A i \in DOMAIN trace :
            /\ trace[i].op = "new"
            /\ trace[i].kind \in {"EdgeFunction", "Role", "Function", "Version"}
            /\ trace[i].path = LastThis \/ IsUnder(trace[i].path, LastThis)
       /\ Cardinality({i \in DOMAIN trace : trace[i].kind = "Function"}) = 1

\* An in-region facade in a stack that is not part of any application.
C3_Witness ==
  /\ lastCall.op = "new" /\ lastCall.scope = <<"LE">>
  /\ LastThis \in Constructed
  /\ <<"App", "SE", "Fn">> \in Constructed

(* -------------------------------- C4 ----------------------------------- *)

\* C4: on the cross-region path the constructor fails with a configuration
\* error when the root is not a staged application and when the caller's
\* region is unresolved, before any support stack, dependency edge, function,
\* entry, provider or resolver invocation is created.
C4_ConfigurationError ==
  /\ \A f \in Facades :
       (CallerRegion(f) # "us-east-1"
          /\ (~isStage(tree, rootOf(f)) \/ CallerRegion(f) = UnresolvedRegion)) =>
         /\ f \notin Constructed
         /\ \A p \in DOMAIN tree : ~IsUnder(p, f)
         /\ \A d \in deps : d[1] # CallerStackOf(f)
  /\ \A s \in SupportStacks :
       /\ isStage(tree, Parent(s))
       /\ IdOf(s) # "edge-lambda-stack-" \o UnresolvedRegion
  /\ \A p \in NodesOfKind("CustomResourceProvider") :
       /\ isStage(tree, rootOf(p))
       /\ tree[Parent(p)].region # UnresolvedRegion
  /\ (LastCtorCrossRegion
        /\ (~isStage(tree, rootOf(lastCall.scope))
              \/ tree[lastCall.scope].region = UnresolvedRegion)) =>
       /\ lastCall.err \in {ErrNotStaged, ErrRegion}
       /\ ~isStage(tree, rootOf(lastCall.scope)) => lastCall.err = ErrNotStaged
       /\ trace = <<[op |-> "new", kind |-> "EdgeFunction", path |-> LastThis, target |-> NoPath]>>

\* Both configuration errors have been raised, the unresolved region last.
C4_Witness ==
  /\ lastCall.op = "new" /\ lastCall.scope = <<"App", "SU">>
  /\ lastCall.err = ErrRegion
  /\ \E f \in Facades : CallerStackOf(f) = <<"LN">>

(* -------------------------------- C5 ----------------------------------- *)

\* C5: a constructor call that fails leaves the tree and the dependency
\* edges exactly as they were before the call.
C5_NoPartialState ==
  [][(lastCall'.op = "new" /\ lastCall'.err # NoErr) => (tree' = tree /\ deps' = deps)]_vars

(* -------------------------------- C6 ----------------------------------- *)

\* C6: for callers of one region with distinct logical ids nothing collides:
\* a construction fails with a name clash inside the support stack only when
\* another caller of that region used the same id, the entry names of
\* distinct ids are distinct, and each resolver invocation is parameterised
\* with the name under which its own function's version was published.
C6_DistinctIdsDoNotCollide ==
  /\ (LastCtorCrossRegion /\ lastCall.err = ErrDuplicate) =>
       \E f \in Facades :
         /\ f # LastThis
         /\ rootOf(f) = rootOf(LastThis)
         /\ CallerRegion(f) = CallerRegion(LastThis)
         /\ IdOf(f) = lastCall.id
  /\ \A f1, f2 \in CrossRegionFacades :
       (rootOf(f1) = rootOf(f2) /\ CallerRegion(f1) = CallerRegion(f2) /\ IdOf(f1) # IdOf(f2)) =>
         tree[tree[f1].lambda \o <<"Parameter">>].parameterName
           # tree[tree[f2].lambda \o <<"Parameter">>].parameterName
  /\ \A f \in CrossRegionFacades :
       tree[f \o <<"ArnReader">>].properties.ParameterName
         = tree[tree[f].lambda \o <<"Parameter">>].parameterName

(* -------------------------------- C7 ----------------------------------- *)

\* C7: every cross-region facade whose resolver invocation exists has the
\* edge caller stack -> support stack recorded; in the constructor that edge
\* is recorded before the function is added to the support stack and before
\* the resolver invocation is created; in-region callers record no edge and
\* no edge leaves a support stack.
C7_DependencyEdge ==
  /\ \A f \in CrossRegionFacades :
       <<CallerStackOf(f), stackOf(tree, tree[f].lambda)>> \in deps
  /\ \A d \in deps :
       /\ tree[d[1]].kind = "Stack"
       /\ tree[d[1]].region # "us-east-1"
       /\ tree[d[2]].kind = "CrossRegionLambdaStack"
  /\ LastCtorCrossRegion =>
       \A i \in DOMAIN trace :
         (trace[i].op = "new" /\ trace[i].kind \in {"Role", "Function", "StringParameter", "CustomResource"}) =>
           \E j \in 1..(i - 1) :
             /\ trace[j].op = "addDependency"
             /\ trace[j].path = lastCall.scope
             /\ tree[trace[j].target].kind = "CrossRegionLambdaStack"

\* A cross-region facade and an in-region facade of one application.
C7_Witness ==
  /\ \E f \in CrossRegionFacades : CallerStackOf(f) = <<"App", "SA">>
  /\ \E f \in InRegionFacades : CallerStackOf(f) = <<"App", "SE">>

(* -------------------------------- C8 ----------------------------------- *)

\* C8: every alias is a child of the stack that holds the facade's underlying
\* function (the caller's stack in-region, the support stack cross-region),
\* never of the facade nor of the caller's stack when the two differ, and it
\* targets the current version of that facade's own function.
C8_AliasInOwningStack ==
  /\ \A f \in Constructed : tree[f].functionStack = stackOf(tree, tree[f].lambda)
  /\ \A a \in NodesOfKind("Alias") :
       /\ \E f \in Constructed : tree[f].currentVersion = tree[a].version
       /\ \A f \in Constructed :
            tree[f].currentVersion = tree[a].version =>
              /\ Parent(a) = stackOf(tree, tree[f].lambda)
              /\ Parent(a) # f
              /\ f \in InRegionFacades => Parent(a) = CallerStackOf(f)
              /\ f \in CrossRegionFacades =>
                   Parent(a) \in SupportStacks /\ Parent(a) # CallerStackOf(f)
              /\ tree[a].version = tree[f].lambda \o <<"CurrentVersion">>
              /\ tree[tree[a].version].kind = "Version"
  /\ (lastCall.op = "addAlias" /\ lastCall.err = NoErr) =>
       /\ trace = <<[op |-> "new", kind |-> "Alias",
                     path |-> stackOf(tree, tree[lastCall.scope].lambda) \o <<"Alias" \o lastCall.id>>,
                     target |-> NoPath]>>
       /\ tree[trace[1].path].version = tree[lastCall.scope].currentVersion

\* An alias was added to a cross-region facade.
C8_Witness ==
  /\ lastCall.op = "addAlias" /\ lastCall.err = NoErr
  /\ lastCall.scope \in CrossRegionFacades
  /\ NodesOfKind("Alias") # {}

(* -------------------------------- C9 ----------------------------------- *)

\* C9: every constructed facade is backed by exactly one function, which
\* lives in a stack whose region is us-east-1 (the caller's stack in-region,
\* a support stack cross-region); the resolver invocation lives in the
\* caller's stack, never in a support stack.
C9_BackedInEdgeRegion ==
  /\ \A f \in Constructed :
       /\ tree[tree[f].lambda].kind = "Function"
       /\ tree[stackOf(tree, tree[f].lambda)].region = "us-east-1"
       /\ \A f2 \in Constructed : tree[f2].lambda = tree[f].lambda => f2 = f
       /\ f \in InRegionFacades => stackOf(tree, tree[f].lambda) = CallerStackOf(f)
       /\ f \in CrossRegionFacades => stackOf(tree, tree[f].lambda) \in SupportStacks
  /\ Cardinality(NodesOfKind("Function")) = Cardinality(Constructed)
  /\ \A s \in SupportStacks : tree[s].region = "us-east-1"
  /\ \A r \in NodesOfKind("CustomResource") :
       /\ Parent(r) \in CrossRegionFacades
       /\ tree[stackOf(tree, r)].kind = "Stack"
       /\ stackOf(tree, r) # stackOf(tree, tree[Parent(r)].lambda)

\* A cross-region facade of a caller in eu-west-2, backed in its support stack.
C9_Witness ==
  \E f \in CrossRegionFacades :
    /\ CallerStackOf(f) = <<"App", "SC">>
    /\ tree[f].functionStack = <<"App", "edge-lambda-stack-eu-west-2">>

(* -------------------------------- C10 ---------------------------------- *)

\* C10: the names of all key/value entries published into us-east-1 are
\* pairwise distinct across the support stacks of the application.
C10_EntryNamesDistinct ==
  \A p1, p2 \in NodesOfKind("StringParameter") :
    (rootOf(p1) = rootOf(p2) /\ tree[p1].parameterName = tree[p2].parameterName) => p1 = p2

TypeOK ==
  /\ \A p \in DOMAIN tree : Len(p) = 1 \/ Parent(p) \in DOMAIN tree
  /\ \A d \in deps : d[1] \in DOMAIN tree /\ d[2] \in DOMAIN tree
  /\ nCalls \in 0..MaxCalls

====
